---- MODULE Spec2Model ----
(***************************************************************************)
(* Model of blackscholes/base.py: the constructors of BlackScholesBase and *)
(* Black76Base, the shared Greek formulas, the aggregation views, and the  *)
(* call/put variants and straddles built on them.                          *)
(*                                                                         *)
(* Floats are abstracted to their class: nan, -inf, negative, zero,        *)
(* positive, +inf.  A formula of the source is kept as its expression      *)
(* tree and evaluated by Eval over SETS of outcomes: the set holds every   *)
(* class the float result can have and every exception the evaluation can  *)
(* raise.  Operands are evaluated left to right as Python does, an         *)
(* exception in the left operand hides the right operand.                  *)
(* Finite classes stand for magnitudes on which + - * / do not overflow    *)
(* or underflow; a sum of opposite signs can have any finite sign, and exp *)
(* and erf of a negative argument can round to 0.0 and -1.0.               *)
(***************************************************************************)
EXTENDS Integers, FiniteSets, Sequences, TLC

\* Finite parameter values are the integers -MaxVal .. MaxVal.
MaxVal == 1

-----------------------------------------------------------------------------
(* Floats *)

Fin(n) == [k |-> "fin", n |-> n]
PINF == [k |-> "pinf", n |-> 0]
NAN == [k |-> "nan", n |-> 0]

ParamValues == {Fin(n) : n \in -MaxVal..MaxVal} \cup {PINF, NAN}

Classes == {"nan", "ninf", "neg", "zero", "pos", "pinf"}
Errors == {"ZeroDivisionError", "ValueError", "AttributeError"}

\* class of a parameter value
Cls(x) ==
  IF x.k = "fin"
    THEN (IF x.n < 0 THEN "neg" ELSE IF x.n = 0 THEN "zero" ELSE "pos")
    ELSE x.k

\* the stricter comparison  param > 0.0, which also turns zero away
Ge0_strict(x) == Cls(x) \in {"pos", "pinf"}

\* the comparison  param >= 0.0  (False for nan)
Ge0(x) == Cls(x) \in {"zero", "pos", "pinf"}

Sgn(c) == IF c \in {"ninf", "neg"} THEN -1 ELSE IF c = "zero" THEN 0 ELSE 1
IsInf(c) == c \in {"ninf", "pinf"}

NegC(a) ==
  CASE a = "nan" -> {"nan"}
    [] a = "ninf" -> {"pinf"}
    [] a = "neg" -> {"pos"}
    [] a = "zero" -> {"zero"}
    [] a = "pos" -> {"neg"}
    [] a = "pinf" -> {"ninf"}

AddC(a, b) ==
  IF a = "nan" \/ b = "nan" THEN {"nan"}
  ELSE IF IsInf(a) /\ IsInf(b) THEN (IF a = b THEN {a} ELSE {"nan"})
  ELSE IF IsInf(a) THEN {a}
  ELSE IF IsInf(b) THEN {b}
  ELSE IF a = "zero" THEN {b}
  ELSE IF b = "zero" THEN {a}
  ELSE IF a = b THEN {a}
  ELSE {"neg", "zero", "pos"}

SubC(a, b) == UNION {AddC(a, nb) : nb \in NegC(b)}

MulC(a, b) ==
  IF a = "nan" \/ b = "nan" THEN {"nan"}
  ELSE IF IsInf(a) \/ IsInf(b)
    THEN (IF a = "zero" \/ b = "zero" THEN {"nan"}
          ELSE IF Sgn(a) * Sgn(b) > 0 THEN {"pinf"} ELSE {"ninf"})
  ELSE IF a = "zero" \/ b = "zero" THEN {"zero"}
  ELSE IF Sgn(a) * Sgn(b) > 0 THEN {"pos"} ELSE {"neg"}

\* float / float: a zero divisor raises whatever the dividend is
DivC(a, b) ==
  IF b = "zero" THEN {"ZeroDivisionError"}
  ELSE IF a = "nan" \/ b = "nan" THEN {"nan"}
  ELSE IF IsInf(a) /\ IsInf(b) THEN {"nan"}
  ELSE IF IsInf(b) THEN {"zero"}
  ELSE IF IsInf(a) THEN (IF Sgn(a) * Sgn(b) > 0 THEN {"pinf"} ELSE {"ninf"})
  ELSE IF a = "zero" THEN {"zero"}
  ELSE IF Sgn(a) * Sgn(b) > 0 THEN {"pos"} ELSE {"neg"}

\* x ** 2
Pow2C(a) ==
  CASE a = "nan" -> {"nan"}
    [] IsInf(a) -> {"pinf"}
    [] a = "zero" -> {"zero"}
    [] OTHER -> {"pos"}

\* math.sqrt
SqrtC(a) ==
  CASE a = "nan" -> {"nan"}
    [] a \in {"ninf", "neg"} -> {"ValueError"}
    [] OTHER -> {a}

\* math.log
LogC(a) ==
  CASE a = "nan" -> {"nan"}
    [] a \in {"ninf", "neg", "zero"} -> {"ValueError"}
    [] a = "pos" -> {"neg", "zero", "pos"}
    [] a = "pinf" -> {"pinf"}

\* math.exp: a negative argument can underflow to 0.0; a finite positive one
\* is taken not to overflow (in the formulas that needs r * T < -709)
ExpC(a) ==
  CASE a = "nan" -> {"nan"}
    [] a = "ninf" -> {"zero"}
    [] a = "neg" -> {"zero", "pos"}
    [] a = "pinf" -> {"pinf"}
    [] OTHER -> {"pos"}

\* the values and the exceptions of an outcome set
Vals(A) == A \ Errors
Errs(A) == A \cap Errors

\* (1.0 + erf(x / sqrt(2.0))) / 2.0 : erf(-inf) = -1 and erf(+inf) = 1, and
\* erf rounds to -1 already for a finite x below about -8.3
CdfC(a) ==
  CASE a = "nan" -> {"nan"}
    [] a = "ninf" -> {"zero"}
    [] a = "neg" -> {"zero", "pos"}
    [] OTHER -> {"pos"}

\* the unary and the binary operations by name
Un(f, a) ==
  CASE f = "neg" -> NegC(a)
    [] f = "pow2" -> Pow2C(a)
    [] f = "sqrt" -> SqrtC(a)
    [] f = "log" -> LogC(a)
    [] f = "exp" -> ExpC(a)
    [] f = "cdf" -> CdfC(a)

Bin(f, a, b) ==
  CASE f = "add" -> AddC(a, b)
    [] f = "sub" -> SubC(a, b)
    [] f = "mul" -> MulC(a, b)
    [] f = "div" -> DivC(a, b)

\* f(A): an exception of the operand propagates
Lift1(f, A) == Errs(A) \cup UNION {Un(f, a) : a \in Vals(A)}

\* A f B, A evaluated first; B is evaluated only when A returned a value
Lift2(f, A, B) ==
  Errs(A) \cup
    (IF Vals(A) = {} THEN {}
     ELSE Errs(B) \cup UNION {Bin(f, a, b) : a \in Vals(A), b \in Vals(B)})

-----------------------------------------------------------------------------
(* Expression trees *)

ONE == <<"const", "pos">>
TWO == <<"const", "pos">>
HALF == <<"const", "pos">>
PI == <<"const", "pos">>

Neg(a) == <<"neg", a>>
Add(a, b) == <<"add", a, b>>
Sub(a, b) == <<"sub", a, b>>
Mul(a, b) == <<"mul", a, b>>
Div(a, b) == <<"div", a, b>>
Pow2(a) == <<"pow2", a>>
Sqrt(a) == <<"sqrt", a>>
Log(a) == <<"log", a>>
Exp(a) == <<"exp", a>>

\* self.<field>
Field(f) == <<"field", f>>
self_S == Field("S")
self_F == Field("F")
self_K == Field("K")
self_T == Field("T")
self_r == Field("r")
self_sigma == Field("sigma")
self_q == Field("q")

\* self.<method>() and the properties self._d1, self._d2
Self(m) == <<"self", m>>
self_d1 == Self("_d1")
self_d2 == Self("_d2")

\* self.<leg>.<method>()
Leg(f, m) == <<"leg", f, m>>

\* name = first; <rest, which uses name>: rest is evaluated only when first
\* returned a value
Then(first, rest) == <<"then", first, rest>>

-----------------------------------------------------------------------------
(* StandardNormalMixin *)

\* exp(-(x**2) / 2.0) / sqrt(2.0 * pi)
_pdf(x) == Div(Exp(Div(Neg(Pow2(x)), TWO)), Sqrt(Mul(TWO, PI)))

_cdf(x) == <<"cdf", x>>

-----------------------------------------------------------------------------
(* BlackScholesBase *)

\* self.sigma * sqrt(self.T)
SigSqrtT == Mul(self_sigma, Sqrt(self_T))

_d1 ==
  Mul(Div(ONE, SigSqrtT),
      Add(Log(Div(self_S, self_K)),
          Mul(Add(Sub(self_r, self_q), Mul(HALF, Pow2(self_sigma))), self_T)))

_d2 == Sub(self_d1, SigSqrtT)

\* exp(-self.q * self.T), exp(-self.r * self.T)
ExpNegQT == Exp(Mul(Neg(self_q), self_T))
ExpNegRT == Exp(Mul(Neg(self_r), self_T))

gamma ==
  Div(Mul(ExpNegQT, _pdf(self_d1)), Mul(Mul(self_S, self_sigma), Sqrt(self_T)))

dual_gamma ==
  Div(Mul(ExpNegRT, _pdf(self_d2)), Mul(Mul(self_K, self_sigma), Sqrt(self_T)))

vega == Mul(Mul(self_S, _pdf(self_d1)), Sqrt(self_T))


\* delta * S without the division by the price
lambda_greek_undivided == Mul(Self("delta"), self_S)

\* self.delta() * self.S / self.price()
lambda_greek == Div(Mul(Self("delta"), self_S), Self("price"))

vanna == Div(Mul(Neg(_pdf(self_d1)), self_d2), self_sigma)

vomma == Div(Mul(Mul(Self("vega"), self_d1), self_d2), self_sigma)

veta ==
  Mul(Mul(Mul(Mul(Neg(self_S), ExpNegQT), _pdf(self_d1)), Sqrt(self_T)),
      Sub(Add(self_q, Div(Mul(Sub(self_r, self_q), self_d1), SigSqrtT)),
          Div(Add(ONE, Mul(self_d1, self_d2)), Mul(TWO, self_T))))

phi ==
  LET sigma2 == Pow2(self_sigma)
      exp_factor ==
        Mul(Div(Neg(ONE), Mul(Mul(TWO, sigma2), self_T)),
            Pow2(Sub(Log(Div(self_K, self_S)),
                     Mul(Sub(Sub(self_r, self_q), Mul(HALF, sigma2)), self_T))))
  IN Then(exp_factor,
          Mul(Mul(Mul(ExpNegRT, Div(ONE, self_K)),
                  Div(ONE, Sqrt(Mul(Mul(Mul(TWO, PI), sigma2), self_T)))),
              Exp(exp_factor)))

speed ==
  Mul(Div(Neg(Self("gamma")), self_S), Add(Div(self_d1, SigSqrtT), ONE))

zomma == Mul(Self("gamma"), Div(Sub(Mul(self_d1, self_d2), ONE), self_sigma))

color ==
  Mul(Div(Mul(Neg(ExpNegQT), _pdf(self_d1)),
          Mul(Mul(Mul(Mul(TWO, self_S), self_T), self_sigma), Sqrt(self_T))),
      Add(Add(Mul(Mul(TWO, self_q), self_T), ONE),
          Mul(Div(Sub(Mul(Mul(TWO, Sub(self_r, self_q)), self_T),
                      Mul(Mul(self_d2, self_sigma), Sqrt(self_T))),
                  SigSqrtT),
              self_d1)))

ultima ==
  LET d1d2 == Mul(self_d1, self_d2)
  IN Then(d1d2,
          Mul(Div(Neg(Self("vega")), Pow2(self_sigma)),
              Add(Add(Mul(d1d2, Sub(ONE, d1d2)), Pow2(self_d1)),
                  Pow2(self_d2))))

-----------------------------------------------------------------------------
(* Black76Base *)

Black76_d1 ==
  Div(Add(Log(Div(self_F, self_K)), Mul(Mul(HALF, Pow2(self_sigma)), self_T)),
      SigSqrtT)

Black76_d2 == Sub(self_d1, SigSqrtT)

Black76_gamma ==
  Div(Mul(ExpNegRT, _pdf(self_d1)),
      Mul(Mul(self_F, self_sigma), Sqrt(self_T)))

Black76_vega ==
  Mul(Mul(Mul(self_F, ExpNegRT), _pdf(self_d1)), Sqrt(self_T))

Black76_vanna ==
  Mul(Div(Self("vega"), self_F), Sub(ONE, Div(self_d1, SigSqrtT)))

Black76_vomma ==
  Div(Mul(Mul(Self("vega"), self_d1), self_d2), self_sigma)

-----------------------------------------------------------------------------
(* The call and put variants.  Their files are not part of the sources at   *)
(* hand; the formulas are the closed forms the specification names:         *)
(* delta = e^(-qT) cdf(d1) for a call and e^(-qT) (cdf(d1) - 1) for a put,  *)
(* in_the_money = cdf(d2) and cdf(-d2), the others the standard             *)
(* Black-Scholes-Merton and Black-76 results.                               *)

Call_price ==
  Sub(Mul(Mul(self_S, ExpNegQT), _cdf(self_d1)),
      Mul(Mul(_cdf(self_d2), self_K), ExpNegRT))

Put_price ==
  Sub(Mul(Mul(_cdf(Neg(self_d2)), self_K), ExpNegRT),
      Mul(Mul(self_S, ExpNegQT), _cdf(Neg(self_d1))))

Call_in_the_money == _cdf(self_d2)
Put_in_the_money == _cdf(Neg(self_d2))

Call_delta == Mul(ExpNegQT, _cdf(self_d1))
Put_delta == Mul(ExpNegQT, Sub(_cdf(self_d1), ONE))

Call_dual_delta == Mul(Neg(ExpNegRT), _cdf(self_d2))
Put_dual_delta == Mul(ExpNegRT, _cdf(Neg(self_d2)))

\* -e^(-qT) S pdf(d1) sigma / (2 sqrt T)
ThetaDecay ==
  Div(Mul(Mul(Mul(Neg(ExpNegQT), self_S), _pdf(self_d1)), self_sigma),
      Mul(TWO, Sqrt(self_T)))

\* r K e^(-rT) cdf(x), q S e^(-qT) cdf(x)
CarryK(x) == Mul(Mul(Mul(self_r, self_K), ExpNegRT), _cdf(x))
CarryS(x) == Mul(Mul(Mul(self_q, self_S), ExpNegQT), _cdf(x))

Call_theta == Add(Sub(ThetaDecay, CarryK(self_d2)), CarryS(self_d1))
Put_theta == Sub(Add(ThetaDecay, CarryK(Neg(self_d2))), CarryS(Neg(self_d1)))

Call_epsilon == Mul(Mul(Mul(Neg(self_S), self_T), ExpNegQT), _cdf(self_d1))
Put_epsilon == Mul(Mul(Mul(self_S, self_T), ExpNegQT), _cdf(Neg(self_d1)))

Call_rho == Mul(Mul(Mul(self_K, self_T), ExpNegRT), _cdf(self_d2))
Put_rho == Mul(Mul(Mul(Neg(self_K), self_T), ExpNegRT), _cdf(Neg(self_d2)))

\* e^(-qT) pdf(d1) (2 (r - q) T - d2 sigma sqrt T) / (2 T sigma sqrt T)
CharmDrift ==
  Div(Mul(Mul(ExpNegQT, _pdf(self_d1)),
          Sub(Mul(Mul(TWO, Sub(self_r, self_q)), self_T),
              Mul(self_d2, SigSqrtT))),
      Mul(Mul(TWO, self_T), SigSqrtT))

Call_charm == Sub(Mul(Mul(self_q, ExpNegQT), _cdf(self_d1)), CharmDrift)
Put_charm ==
  Sub(Mul(Mul(Neg(self_q), ExpNegQT), _cdf(Neg(self_d1))), CharmDrift)

Black76Call_price ==
  Mul(ExpNegRT,
      Sub(Mul(self_F, _cdf(self_d1)), Mul(self_K, _cdf(self_d2))))

Black76Put_price ==
  Mul(ExpNegRT,
      Sub(Mul(self_K, _cdf(Neg(self_d2))),
          Mul(self_F, _cdf(Neg(self_d1)))))

Black76Call_delta == Mul(ExpNegRT, _cdf(self_d1))
Black76Put_delta == Mul(Neg(ExpNegRT), _cdf(Neg(self_d1)))

\* -F e^(-rT) pdf(d1) sigma / (2 sqrt T) + r price
Black76_theta ==
  Add(Div(Mul(Mul(Mul(Neg(self_F), ExpNegRT), _pdf(self_d1)), self_sigma),
          Mul(TWO, Sqrt(self_T))),
      Mul(self_r, Self("price")))

\* -T price
Black76_rho == Mul(Neg(self_T), Self("price"))

-----------------------------------------------------------------------------
(* Instances, method resolution and evaluation *)

SpotClasses == {"BlackScholesCall", "BlackScholesPut"}
FuturesClasses == {"Black76Call", "Black76Put"}
StraddleClasses == {"BlackScholesStraddleLong", "BlackScholesStraddleShort"}

NoInst == [cls |-> "none"]

\* the zero-argument methods BlackScholesBase defines or declares abstract
SpotMethods ==
  {"price", "in_the_money", "delta", "dual_delta", "gamma", "dual_gamma",
   "vega", "theta", "epsilon", "rho", "lambda_greek", "vanna", "charm",
   "vomma", "veta", "phi", "speed", "zomma", "color", "ultima"}

\* the zero-argument methods Black76Base defines or declares abstract
FuturesMethods ==
  {"price", "delta", "gamma", "vega", "theta", "rho", "vanna", "vomma"}

Methods(o) == IF o.cls \in FuturesClasses THEN FuturesMethods ELSE SpotMethods

\* the body of method m of a call (isCall) or a put of the spot family
SpotBody(isCall, m) ==
  CASE m = "_d1" -> _d1
    [] m = "_d2" -> _d2
    [] m = "price" -> IF isCall THEN Call_price ELSE Put_price
    [] m = "in_the_money" ->
         IF isCall THEN Call_in_the_money ELSE Put_in_the_money
    [] m = "delta" -> IF isCall THEN Call_delta ELSE Put_delta
    [] m = "dual_delta" -> IF isCall THEN Call_dual_delta ELSE Put_dual_delta
    [] m = "gamma" -> gamma
    [] m = "dual_gamma" -> dual_gamma
    [] m = "vega" -> vega
    [] m = "theta" -> IF isCall THEN Call_theta ELSE Put_theta
    [] m = "epsilon" -> IF isCall THEN Call_epsilon ELSE Put_epsilon
    [] m = "rho" -> IF isCall THEN Call_rho ELSE Put_rho
    [] m = "lambda_greek" -> lambda_greek
    [] m = "vanna" -> vanna
    [] m = "charm" -> IF isCall THEN Call_charm ELSE Put_charm
    [] m = "vomma" -> vomma
    [] m = "veta" -> veta
    [] m = "phi" -> phi
    [] m = "speed" -> speed
    [] m = "zomma" -> zomma
    [] m = "color" -> color
    [] m = "ultima" -> ultima

\* the body of method m of a call or a put of the futures family
FuturesBody(isCall, m) ==
  CASE m = "_d1" -> Black76_d1
    [] m = "_d2" -> Black76_d2
    [] m = "price" -> IF isCall THEN Black76Call_price ELSE Black76Put_price
    [] m = "delta" -> IF isCall THEN Black76Call_delta ELSE Black76Put_delta
    [] m = "gamma" -> Black76_gamma
    [] m = "vega" -> Black76_vega
    [] m = "theta" -> Black76_theta
    [] m = "rho" -> Black76_rho
    [] m = "vanna" -> Black76_vanna
    [] m = "vomma" -> Black76_vomma

\* a straddle sums the measure of its two legs, a short one negates the sum
StraddleLong_measure(m) == Add(Leg("call1", m), Leg("put1", m))
StraddleShort_measure(m) == Neg(Add(Leg("call1", m), Leg("put1", m)))

Body(o, m) ==
  CASE o.cls = "BlackScholesCall" -> SpotBody(TRUE, m)
    [] o.cls = "BlackScholesPut" -> SpotBody(FALSE, m)
    [] o.cls = "Black76Call" -> FuturesBody(TRUE, m)
    [] o.cls = "Black76Put" -> FuturesBody(FALSE, m)
    [] o.cls = "BlackScholesStraddleLong" -> StraddleLong_measure(m)
    [] o.cls = "BlackScholesStraddleShort" -> StraddleShort_measure(m)

\* the outcome set of expression e on the instance o
RECURSIVE Eval(_, _)
Eval(e, o) ==
  CASE e[1] = "const" -> {e[2]}
    [] e[1] = "field" -> {Cls(o[e[2]])}
    [] e[1] = "self" -> Eval(Body(o, e[2]), o)
    [] e[1] = "leg" -> Eval(Self(e[3]), o[e[2]])
    [] e[1] \in {"neg", "pow2", "sqrt", "log", "exp", "cdf"} ->
         Lift1(e[1], Eval(e[2], o))
    [] e[1] \in {"add", "sub", "mul", "div"} ->
         Lift2(e[1], Eval(e[2], o), Eval(e[3], o))
    [] e[1] = "then" ->
         LET first == Eval(e[2], o)
         IN Errs(first) \cup (IF Vals(first) = {} THEN {} ELSE Eval(e[3], o))

\* getattr(o, name)()
Invoke(o, name) ==
  IF name \notin Methods(o) THEN {"AttributeError"} ELSE Eval(Self(name), o)

-----------------------------------------------------------------------------
(* Aggregation views: a dict display is a sequence of <<key, method>>      *)
(* entries, evaluated in order                                             *)

\* a core view whose theta entry is taken from vega()
CoreGreeksEntries_theta_from_vega ==
  << <<"delta", "delta">>, <<"gamma", "gamma">>, <<"vega", "vega">>,
     <<"theta", "vega">>, <<"rho", "rho">> >>

\* the dict displays of the views of BlackScholesBase
CoreGreeksEntries ==
  << <<"delta", "delta">>, <<"gamma", "gamma">>, <<"vega", "vega">>,
     <<"theta", "theta">>, <<"rho", "rho">> >>

ItmProxiesEntries ==
  << <<"naive_itm", "in_the_money">>, <<"dual_delta", "dual_delta">> >>

\* a full view that leaves lambda out
AllGreeksEntries_without_lambda ==
  << <<"delta", "delta">>, <<"gamma", "gamma">>, <<"vega", "vega">>,
     <<"theta", "theta">>, <<"epsilon", "epsilon">>, <<"rho", "rho">>,
     <<"vanna", "vanna">>, <<"charm", "charm">>,
     <<"vomma", "vomma">>, <<"veta", "veta">>, <<"phi", "phi">>,
     <<"speed", "speed">>, <<"zomma", "zomma">>, <<"color", "color">>,
     <<"ultima", "ultima">>, <<"dual_delta", "dual_delta">>,
     <<"dual_gamma", "dual_gamma">> >>

AllGreeksEntries ==
  << <<"delta", "delta">>, <<"gamma", "gamma">>, <<"vega", "vega">>,
     <<"theta", "theta">>, <<"epsilon", "epsilon">>, <<"rho", "rho">>,
     <<"lambda", "lambda_greek">>, <<"vanna", "vanna">>, <<"charm", "charm">>,
     <<"vomma", "vomma">>, <<"veta", "veta">>, <<"phi", "phi">>,
     <<"speed", "speed">>, <<"zomma", "zomma">>, <<"color", "color">>,
     <<"ultima", "ultima">>, <<"dual_delta", "dual_delta">>,
     <<"dual_gamma", "dual_gamma">> >>

Black76CoreGreeksEntries ==
  << <<"delta", "delta">>, <<"gamma", "gamma">>, <<"vega", "vega">>,
     <<"theta", "theta">>, <<"rho", "rho">> >>

Black76AllGreeksEntries ==
  << <<"delta", "delta">>, <<"gamma", "gamma">>, <<"vega", "vega">>,
     <<"theta", "theta">>, <<"rho", "rho">>, <<"vanna", "vanna">>,
     <<"vomma", "vomma">> >>

Keys(entries) == {entries[i][1] : i \in 1..Len(entries)}

NoMapping == << >>

\* a display that swallows the errors and returns the entries that succeeded
Display_partial(o, entries) ==
  LET n == Len(entries)
      res == [i \in 1..n |-> Invoke(o, entries[i][2])]
      ok == {i \in 1..n : Vals(res[i]) # {}}
      idx(k) == CHOOSE i \in ok : entries[i][1] = k
  IN [raises |-> {},
      returns |-> [k \in {entries[i][1] : i \in ok} |-> Vals(res[idx(k)])]]

\* The display raises what an entry raises, provided every entry before it
\* can return a value, and returns a mapping only if every entry returns one.
Display(o, entries) ==
  LET n == Len(entries)
      res == [i \in 1..n |-> Invoke(o, entries[i][2])]
      reached(i) == \A j \in 1..(i - 1) : Vals(res[j]) # {}
      idx(k) == CHOOSE i \in 1..n : entries[i][1] = k
  IN [raises |-> UNION {Errs(res[i]) : i \in {j \in 1..n : reached(j)}},
      returns |-> IF reached(n + 1)
                    THEN [k \in Keys(entries) |-> Vals(res[idx(k)])]
                    ELSE NoMapping]

get_core_greeks(o) ==
  IF o.cls \in FuturesClasses
    THEN Display(o, Black76CoreGreeksEntries)
    ELSE Display(o, CoreGreeksEntries)

get_itm_proxies(o) == Display(o, ItmProxiesEntries)

get_all_greeks(o) ==
  IF o.cls \in FuturesClasses
    THEN Display(o, Black76AllGreeksEntries)
    ELSE Display(o, AllGreeksEntries)

-----------------------------------------------------------------------------
(* The straddle tests *)

\* test_methods = list(straddle.call1.get_all_greeks().keys()) + ["price"]
TestMethods ==
  [i \in 1..(Len(AllGreeksEntries) + 1) |->
     IF i <= Len(AllGreeksEntries) THEN AllGreeksEntries[i][1] ELSE "price"]

\* a == b on floats of classes a and b: "passed" if it can be True,
\* "AssertionError" if it can be False (nan equals nothing)
EqAssert(a, b) ==
  IF a = "nan" \/ b = "nan" \/ a # b THEN {"AssertionError"}
  ELSE IF a \in {"zero", "ninf", "pinf"} THEN {"passed"}
  ELSE {"passed", "AssertionError"}

\* assert lhs == legs, the left side evaluated first
AssertEqual(lhs, legs) ==
  Errs(lhs) \cup
  (IF Vals(lhs) = {} THEN {}
   ELSE Errs(legs) \cup
        UNION {EqAssert(a, b) : a \in Vals(lhs), b \in Vals(legs)})

\* put + call in the long test, -put - call in the short one
TestLegs(cls, put, call) ==
  IF cls = "BlackScholesStraddleLong"
    THEN Lift2("add", put, call)
    ELSE Lift2("sub", Lift1("neg", put), call)

\* assert getattr(straddle, attr)()
\*     == getattr(straddle.put1, attr)() + getattr(straddle.call1, attr)()
test_individual_methods(o, attr) ==
  AssertEqual(Invoke(o, attr),
              TestLegs(o.cls, Invoke(o.put1, attr), Invoke(o.call1, attr)))

-----------------------------------------------------------------------------
(* Construction *)

\* for param in params: assert param >= 0.0 -- the parameters that fail it
Rejected(params) == {i \in 1..Len(params) : ~Ge0(params[i])}

\* a constructor whose loop leaves q out
BlackScholesBase_init_without_q(S, K, T, r, sigma, q) ==
  IF Rejected(<<S, K, T, sigma>>) # {} THEN "AssertionError" ELSE "none"

\* BlackScholesBase.__init__: the exception raised, "none" when it returns
BlackScholesBase_init(S, K, T, r, sigma, q) ==
  IF Rejected(<<S, K, T, sigma, q>>) # {} THEN "AssertionError" ELSE "none"

\* Black76Base.__init__
Black76Base_init(F, K, T, r, sigma) ==
  IF Rejected(<<F, K, T, sigma>>) # {} THEN "AssertionError" ELSE "none"

SpotInstance(cls, S, K, T, r, sigma, q) ==
  [cls |-> cls, S |-> S, K |-> K, T |-> T, r |-> r, sigma |-> sigma, q |-> q]

FuturesInstance(cls, F, K, T, r, sigma) ==
  [cls |-> cls, F |-> F, K |-> K, T |-> T, r |-> r, sigma |-> sigma]

-----------------------------------------------------------------------------
(* State: the instance under evaluation, the outcome of the last call, and *)
(* pend: a second thread's evaluation of the property _d2, which reads     *)
(* _d1 and then sigma and T                                                *)

VARIABLES inst, last, pend

vars == <<inst, last, pend>>

NoPend == [stage |-> "none"]

Init ==
  /\ inst = NoInst
  /\ last = [op |-> "start"]
  /\ pend = NoPend

\* A program constructs one instrument and then evaluates it; a construction
\* that raises leaves it without an instance.
Fresh == inst = NoInst /\ last.op = "start"

ConstructSpot(cls, S, K, T, r, sigma, q) ==
  LET raised == BlackScholesBase_init(S, K, T, r, sigma, q)
  IN /\ inst' = IF raised = "none"
                  THEN SpotInstance(cls, S, K, T, r, sigma, q)
                  ELSE inst
     /\ last' = [op |-> "__init__", cls |-> cls,
                 args |-> <<S, K, T, r, sigma, q>>, raised |-> raised]
     /\ UNCHANGED pend

ConstructFutures(cls, F, K, T, r, sigma) ==
  LET raised == Black76Base_init(F, K, T, r, sigma)
  IN /\ inst' = IF raised = "none"
                  THEN FuturesInstance(cls, F, K, T, r, sigma)
                  ELSE inst
     /\ last' = [op |-> "__init__", cls |-> cls,
                 args |-> <<F, K, T, r, sigma>>, raised |-> raised]
     /\ UNCHANGED pend

\* A straddle builds its call leg and its put leg from the same parameters,
\* with the default dividend yield 0.0.
ConstructStraddle(cls, S, K, T, r, sigma) ==
  LET raised == BlackScholesBase_init(S, K, T, r, sigma, Fin(0))
  IN /\ inst' = IF raised = "none"
                  THEN [cls |-> cls,
                        call1 |-> SpotInstance("BlackScholesCall",
                                               S, K, T, r, sigma, Fin(0)),
                        put1 |-> SpotInstance("BlackScholesPut",
                                              S, K, T, r, sigma, Fin(0))]
                  ELSE inst
     /\ last' = [op |-> "__init__", cls |-> cls,
                 args |-> <<S, K, T, r, sigma>>, raised |-> raised]
     /\ UNCHANGED pend

\* the constructor calls a fresh program can make
NewSpot ==
  /\ Fresh
  /\ \E cls \in SpotClasses, S \in ParamValues, K \in ParamValues,
        T \in ParamValues, r \in ParamValues, sigma \in ParamValues,
        q \in ParamValues : ConstructSpot(cls, S, K, T, r, sigma, q)

NewFutures ==
  /\ Fresh
  /\ \E cls \in FuturesClasses, F \in ParamValues, K \in ParamValues,
        T \in ParamValues, r \in ParamValues, sigma \in ParamValues :
        ConstructFutures(cls, F, K, T, r, sigma)

NewStraddle ==
  /\ Fresh
  /\ \E cls \in StraddleClasses, S \in ParamValues, K \in ParamValues,
        T \in ParamValues, r \in ParamValues, sigma \in ParamValues :
        ConstructStraddle(cls, S, K, T, r, sigma)

\* the caller is between two calls: the instance is constructed and the
\* outcome of the previous call has been taken
Idle == inst # NoInst /\ last.op = "idle"

\* the caller takes the returned value, or catches the exception
Consume ==
  /\ inst # NoInst
  /\ last.op # "idle"
  /\ last' = [op |-> "idle"]
  /\ UNCHANGED <<inst, pend>>

\* the names a caller looks up: the methods and the keys of the views
Names == SpotMethods \cup Keys(AllGreeksEntries) \cup Keys(ItmProxiesEntries)

\* getattr(inst, name)()
CallByName(name) ==
  /\ Idle
  /\ last' = [op |-> "call", name |-> name, out |-> Invoke(inst, name)]
  /\ UNCHANGED <<inst, pend>>

CallGetCoreGreeks ==
  /\ Idle
  /\ inst.cls \in SpotClasses \cup FuturesClasses
  /\ last' = [op |-> "get_core_greeks", out |-> get_core_greeks(inst)]
  /\ UNCHANGED <<inst, pend>>

CallGetItmProxies ==
  /\ Idle
  /\ inst.cls \in SpotClasses
  /\ last' = [op |-> "get_itm_proxies", out |-> get_itm_proxies(inst)]
  /\ UNCHANGED <<inst, pend>>

CallGetAllGreeks ==
  /\ Idle
  /\ inst.cls \in SpotClasses \cup FuturesClasses
  /\ last' = [op |-> "get_all_greeks", out |-> get_all_greeks(inst)]
  /\ UNCHANGED <<inst, pend>>

\* test_methods = list(straddle.call1.get_all_greeks().keys()) + ["price"]
TestBuildMethods ==
  /\ Idle
  /\ inst.cls \in StraddleClasses
  /\ last' = [op |-> "test_methods", out |-> get_all_greeks(inst.call1)]
  /\ UNCHANGED <<inst, pend>>

\* One iteration of `for attr in test_methods: assert ...`; the loop goes on
\* to the next name only when the assertion passed.
TestIteration ==
  /\ inst.cls \in StraddleClasses
  /\ \/ last.op = "test_methods" /\ last.out.returns # NoMapping
     \/ last.op = "test" /\ "passed" \in last.out /\ last.i < Len(TestMethods)
  /\ LET i == IF last.op = "test" THEN last.i + 1 ELSE 1
     IN last' = [op |-> "test", i |-> i, name |-> TestMethods[i],
                 out |-> test_individual_methods(inst, TestMethods[i])]
  /\ UNCHANGED <<inst, pend>>

Next ==
  \/ NewSpot
  \/ NewFutures
  \/ NewStraddle
  \/ \E name \in Names : CallByName(name)
  \/ CallGetCoreGreeks
  \/ CallGetItmProxies
  \/ CallGetAllGreeks
  \/ TestBuildMethods
  \/ TestIteration
  \/ Consume

Spec == Init /\ [][Next]_vars

-----------------------------------------------------------------------------
(* Two threads on one instance: the first makes the calls above, the       *)
(* second evaluates the property _d2 in its two reads.                     *)

D1Of(o) == Eval(self_d1, o)
D2Of(o) == Eval(self_d2, o)

\* self._d1
D2ReadD1 ==
  /\ inst.cls \in SpotClasses \cup FuturesClasses
  /\ pend.stage \in {"none", "done"}
  /\ pend' = [stage |-> "d1", d1 |-> D1Of(inst)]
  /\ UNCHANGED <<inst, last>>

\* a _d2 that keeps its result by overwriting a field of the instance
D2Finish_storing ==
  /\ pend.stage = "d1"
  /\ pend' = [stage |-> "done",
              d2 |-> Lift2("sub", pend.d1, Eval(SigSqrtT, inst))]
  /\ inst' = [inst EXCEPT !.sigma = Fin(0)]
  /\ UNCHANGED last

\* ... - self.sigma * sqrt(self.T)
D2Finish ==
  /\ pend.stage = "d1"
  /\ pend' = [stage |-> "done",
              d2 |-> Lift2("sub", pend.d1, Eval(SigSqrtT, inst))]
  /\ UNCHANGED <<inst, last>>

FiniteValues == {Fin(n) : n \in -MaxVal..MaxVal}
NonNegValues == {v \in FiniteValues : Ge0(v)}

\* the instances the constructors return for finite parameters
Constructed ==
  {SpotInstance(cls, S, K, T, r, sigma, q) :
     cls \in SpotClasses, S \in NonNegValues, K \in NonNegValues,
     T \in NonNegValues, r \in FiniteValues, sigma \in NonNegValues,
     q \in NonNegValues}
  \cup
  {FuturesInstance(cls, F, K, T, r, sigma) :
     cls \in FuturesClasses, F \in NonNegValues, K \in NonNegValues,
     T \in NonNegValues, r \in FiniteValues, sigma \in NonNegValues}

InitThreads ==
  /\ inst \in Constructed
  /\ last = [op |-> "idle"]
  /\ pend = NoPend

NextThreads ==
  \/ \E name \in Names : CallByName(name)
  \/ CallGetCoreGreeks
  \/ CallGetItmProxies
  \/ CallGetAllGreeks
  \/ Consume
  \/ D2ReadD1
  \/ D2Finish

SpecThreads == InitThreads /\ [][NextThreads]_vars

-----------------------------------------------------------------------------
(* Properties *)

LeafClasses == SpotClasses \cup FuturesClasses

\* the positions, in a constructor's argument tuple, of the parameters that
\* must not be negative: S, K, T, sigma, q of (S, K, T, r, sigma, q) and
\* F, K, T, sigma of (F, K, T, r, sigma)
RequiredNonNegative(cls) ==
  IF cls \in FuturesClasses THEN {1, 2, 3, 5} ELSE {1, 2, 3, 5, 6}

\* the fields of a leaf instance, in the order of its constructor's arguments
FieldsOf(o) ==
  IF o.cls \in FuturesClasses
    THEN <<o.F, o.K, o.T, o.r, o.sigma>>
    ELSE <<o.S, o.K, o.T, o.r, o.sigma, o.q>>

\* C1: constructing a spot-family or a futures-family instrument with one of
\* its required-non-negative parameters negative fails with the constructor's
\* error (the AssertionError of `assert param >= 0.0`) and yields no
\* instance, whatever the other parameters are.
C1_NegativeParameterFailsConstruction ==
  (/\ last.op = "__init__"
   /\ last.cls \in LeafClasses
   /\ \E i \in RequiredNonNegative(last.cls) : Cls(last.args[i]) = "neg")
  => (last.raised = "AssertionError" /\ inst = NoInst)

\* exactly one required parameter is negative, all the others are valid
C1_OnlyOneNegativeRejected ==
  /\ last.op = "__init__"
  /\ last.cls \in LeafClasses
  /\ \E i \in RequiredNonNegative(last.cls) :
       /\ Cls(last.args[i]) = "neg"
       /\ \A j \in RequiredNonNegative(last.cls) \ {i} :
            Cls(last.args[j]) \in {"zero", "pos"}
  /\ last.raised = "AssertionError"

\* C2: construction succeeds whenever every required-non-negative parameter
\* is >= 0, zero included, for any r; the instance then holds exactly the
\* supplied values.
C2_NonNegativeParametersConstruct ==
  (/\ last.op = "__init__"
   /\ last.cls \in LeafClasses
   /\ \A i \in RequiredNonNegative(last.cls) :
        Cls(last.args[i]) \in {"zero", "pos", "pinf"})
  => (/\ last.raised = "none"
      /\ inst.cls = last.cls
      /\ FieldsOf(inst) = last.args)

\* every required parameter is exactly 0 and r is negative
C2_ZerosAndNegativeRateConstructed ==
  /\ last.op = "__init__"
  /\ last.cls \in LeafClasses
  /\ \A i \in RequiredNonNegative(last.cls) : last.args[i] = Fin(0)
  /\ Cls(last.args[4]) = "neg"
  /\ last.raised = "none"
  /\ inst.r = last.args[4]

\* the parameters of a straddle are finite numbers
FiniteStraddle(o) ==
  /\ o.cls \in StraddleClasses
  /\ \A i \in 1..6 : FieldsOf(o.call1)[i].k = "fin"

\* C3: for every name M of the keys of get_all_greeks plus price, a long
\* straddle's M() equals put.M() + call.M() and a short straddle's M() equals
\* -put.M() - call.M(): each iteration of the straddle test can pass.
C3_StraddleLinearity ==
  (last.op = "test" /\ FiniteStraddle(inst)) => "passed" \in last.out

SpotAllGreeksNames ==
  {"delta", "gamma", "vega", "theta", "epsilon", "rho", "lambda", "vanna",
   "charm", "vomma", "veta", "phi", "speed", "zomma", "color", "ultima",
   "dual_delta", "dual_gamma"}

FuturesAllGreeksNames ==
  {"delta", "gamma", "vega", "theta", "rho", "vanna", "vomma"}

\* C4: the key set of the mapping get_all_greeks returns is the enumerated
\* set of the family, 18 names for the spot family and 7 for the futures
\* family, and the key set of get_core_greeks is a subset of it.
C4_AllGreeksKeySet ==
  (last.op = "get_all_greeks" /\ last.out.returns # NoMapping)
  => (/\ DOMAIN last.out.returns =
           IF inst.cls \in FuturesClasses
             THEN FuturesAllGreeksNames
             ELSE SpotAllGreeksNames
      /\ LET core == get_core_greeks(inst).returns
         IN core # NoMapping /\ DOMAIN core \subseteq DOMAIN last.out.returns)

\* a spot instrument's get_all_greeks returned its 18 entries
C4_SpotAllGreeksReturned ==
  /\ last.op = "get_all_greeks"
  /\ inst.cls \in SpotClasses
  /\ last.out.returns # NoMapping
  /\ Cardinality(DOMAIN last.out.returns) = 18

\* C5: the mapping get_core_greeks returns has exactly the keys delta, gamma,
\* vega, theta, rho and the mapping get_itm_proxies returns exactly the keys
\* naive_itm, dual_delta; each value is what the measure of that name returns
\* on the same instance, naive_itm being in_the_money().
C5_CoreAndItmViews ==
  /\ (last.op = "get_core_greeks" /\ last.out.returns # NoMapping)
     => (/\ DOMAIN last.out.returns =
              {"delta", "gamma", "vega", "theta", "rho"}
         /\ \A k \in DOMAIN last.out.returns :
              last.out.returns[k] = Vals(Invoke(inst, k)))
  /\ (last.op = "get_itm_proxies" /\ last.out.returns # NoMapping)
     => (/\ DOMAIN last.out.returns = {"naive_itm", "dual_delta"}
         /\ last.out.returns["naive_itm"] =
              Vals(Invoke(inst, "in_the_money"))
         /\ last.out.returns["dual_delta"] = Vals(Invoke(inst, "dual_delta")))

\* get_core_greeks returned a mapping and no entry of it can raise
C5_CoreGreeksReturned ==
  /\ last.op = "get_core_greeks"
  /\ last.out.returns # NoMapping
  /\ last.out.raises = {}
  /\ last.out.returns["theta"] # last.out.returns["vega"]

\* sigma = 0 or T = 0, with an underlying price and a strike that are
\* positive numbers: the quotient S / K (or F / K) and its logarithm are
\* defined, sigma * sqrt(T) is what makes d1 and d2 undefined
Degenerate(o) ==
  /\ Cls(o.sigma) = "zero" \/ Cls(o.T) = "zero"
  /\ FieldsOf(o)[1].k = "fin" /\ Cls(FieldsOf(o)[1]) = "pos"
  /\ o.K.k = "fin" /\ Cls(o.K) = "pos"

\* C6: on an instrument with sigma = 0 or T = 0 every measure follows one
\* policy: it fails with the one error of the degenerate input (the division
\* by sigma * sqrt(T) = 0) or returns a finite value, never NaN, never an
\* infinity, never another failure.
C6_OneDegeneratePolicy ==
  (/\ last.op = "call"
   /\ inst.cls \in LeafClasses
   /\ last.name \in Methods(inst)
   /\ Degenerate(inst))
  => last.out \cap {"ZeroDivisionError", "neg", "zero", "pos"} # {}

\* C7: lambda_greek returns delta * S / price when price is not 0, fails with
\* ZeroDivisionError and returns nothing when price() is 0, and the call
\* leaves the instrument's fields as they were.
C7_LambdaOutcome ==
  (last.op = "call" /\ last.name = "lambda_greek" /\ inst.cls \in SpotClasses)
  => LET price == Invoke(inst, "price")
         delta == Invoke(inst, "delta")
         numerators ==
           UNION {Bin("mul", d, Cls(inst.S)) : d \in Vals(delta)}
         quotients ==
           UNION {Bin("div", n, p) :
                    n \in numerators, p \in Vals(price) \ {"zero"}}
     IN /\ Vals(last.out) = quotients
        /\ ("zero" \in price /\ Vals(delta) # {})
           => "ZeroDivisionError" \in last.out
        /\ price = {"zero"} => last.out = {"ZeroDivisionError"}

C7_LambdaOfSpotInstrument ==
  /\ [] C7_LambdaOutcome
  /\ [][(last'.op = "call" /\ last'.name = "lambda_greek") => inst' = inst]_vars

\* lambda_greek was called on an instrument whose price is exactly 0
C7_LambdaAtZeroPrice ==
  /\ last.op = "call"
  /\ last.name = "lambda_greek"
  /\ inst.cls \in SpotClasses
  /\ Invoke(inst, "price") = {"zero"}
  /\ last.out = {"ZeroDivisionError"}

\* C8: no call changes the instance: in every interleaving of a thread's
\* calls with another thread's evaluation of _d2 the fields stay what the
\* constructor stored, the required-non-negative ones stay >= 0, and the d1
\* and d2 of one evaluation are those of one and the same set of fields.
C8_OneSnapshot ==
  inst.cls \in LeafClasses
  => (/\ \A i \in RequiredNonNegative(inst.cls) :
           Cls(FieldsOf(inst)[i]) \in {"zero", "pos", "pinf"}
      /\ pend.stage = "d1" => pend.d1 = D1Of(inst)
      /\ pend.stage = "done" => pend.d2 = D2Of(inst))

C8_NoMethodMutatesState ==
  /\ [] C8_OneSnapshot
  /\ [][inst' = inst]_vars

\* the second thread finished a _d2 that has a value while the first
\* thread's last call was a view
C8_D2FinishedBesideCalls ==
  /\ pend.stage = "done"
  /\ Vals(pend.d2) # {}
  /\ last.op = "get_all_greeks"

\* C9: every key of the mapping a spot instrument's get_all_greeks returns
\* is the name of a method of the instrument and of a straddle: looking the
\* key up on the object and calling it never fails for want of the attribute.
C9_KeysAreMethodNames ==
  (/\ last.op = "call"
   /\ inst.cls \in SpotClasses \cup StraddleClasses
   /\ last.name \in Keys(AllGreeksEntries))
  => "AttributeError" \notin last.out

ViewOps == {"get_core_greeks", "get_itm_proxies", "get_all_greeks"}

\* the methods a view lists, by the view's name and the instance's family
Listed(op, o) ==
  CASE op = "get_core_greeks" -> {"delta", "gamma", "vega", "theta", "rho"}
    [] op = "get_itm_proxies" -> {"in_the_money", "dual_delta"}
    [] op = "get_all_greeks" ->
         IF o.cls \in FuturesClasses
           THEN FuturesAllGreeksNames
           ELSE (SpotAllGreeksNames \ {"lambda"}) \cup {"lambda_greek"}

\* C10: a view returns a mapping only when every measure it lists returns a
\* value, the mapping then has every key; when a listed measure fails the
\* view fails with an error of a listed measure and returns no mapping.  When
\* price() is 0 get_all_greeks fails with lambda's ZeroDivisionError while
\* get_core_greeks raises only what its own five measures raise.
C10_ViewsAllOrNothing ==
  last.op \in ViewOps
  => LET listed == Listed(last.op, inst)
         failing == {m \in listed : Vals(Invoke(inst, m)) = {}}
         errors == UNION {Errs(Invoke(inst, m)) : m \in listed}
     IN /\ last.out.raises \subseteq errors
        /\ last.out.returns # NoMapping
           => (/\ failing = {}
               /\ Cardinality(DOMAIN last.out.returns) = Cardinality(listed))
        /\ failing # {}
           => (last.out.returns = NoMapping /\ last.out.raises # {})
        /\ (/\ last.op = "get_all_greeks"
            /\ inst.cls \in SpotClasses
            /\ Invoke(inst, "price") = {"zero"})
           => (/\ last.out.returns = NoMapping
               /\ "ZeroDivisionError" \in last.out.raises)

\* at a price of exactly 0 get_all_greeks failed with lambda's error while
\* get_core_greeks of the same instrument returns its mapping
C10_AllGreeksFailsAtZeroPrice ==
  /\ last.op = "get_all_greeks"
  /\ inst.cls \in SpotClasses
  /\ Invoke(inst, "price") = {"zero"}
  /\ last.out = [raises |-> {"ZeroDivisionError"}, returns |-> NoMapping]
  /\ get_core_greeks(inst).returns # NoMapping
  /\ get_core_greeks(inst).raises = {}

====
